---- MODULE Spec2Model ----
(***************************************************************************)
(* A model of the validatron error-aggregation core: the Location and      *)
(* Error values, Error::merge and the ErrorBuilder.  The repository holds  *)
(* two evolutions of this core side by side:                               *)
(*   - src/validatron/src/lib.rs   (the crate root: Field / Structured,    *)
(*     NamedField / MapKey / Index, ErrorBuilder::new / extend / because / *)
(*     at_location / at_field / at_index / at_key)                         *)
(*   - src/validatron/src/error.rs (Unstructured / Structured, Named /     *)
(*     Index, Error::build, at_* taking a message, try_at_* taking a       *)
(*     result).                                                            *)
(* Definitions translated from lib.rs keep the source's names; those       *)
(* translated from error.rs carry the module's name as a prefix (error_),  *)
(* as in the Rust path crate::error::...                                   *)
(***************************************************************************)
EXTENDS Integers, Sequences, FiniteSets, TLC

VARIABLES
    crate,      \* which evolution this run exercises: "lib" or "error"
    pc,         \* position of the caller
    a, b, c,    \* operands handed to Error::merge; the value validated, the order a map
                \* was visited in and the result of validating again
    ret,        \* what the last call returned (or Panic)
    errors,     \* ErrorBuilder.errors : Option<Error>
    last,       \* ghost: the last builder call, its arguments and the pending error before it
    registered, \* ghost: the failures handed to the builder since it was created or built
    nops        \* ghost: number of builder calls made so far

vars == <<crate, pc, a, b, c, ret, errors, last, registered, nops>>

(***************************************************************************)
(* Bounds of the model.                                                    *)
(***************************************************************************)
\* Largest weight (messages plus map entries) of an error tree drawn as input
MaxSize == 4
\* Largest number of calls made on one builder
MaxOps == 3

\* Reason strings the inputs are drawn from
Msgs == {"x", "y"}

(***************************************************************************)
(* Values                                                                  *)
(***************************************************************************)
\* Option::None
None == [none |-> TRUE]
\* Result::Ok(())
Ok == [ok |-> TRUE]
\* Result::Err(e)
Err(e) == [err |-> e]
\* an unwinding panic with the given message
PanicWith(m) == [panic |-> m]
IsPanic(r) == "panic" \in DOMAIN r
IsErr(r) == "err" \in DOMAIN r

\* lib.rs Location
NamedField(s) == [NamedField |-> s]
MapKey(s) == [MapKey |-> s]
Index(i) == [Index |-> i]
\* error.rs Location (Index is shared)
Named(s) == [Named |-> s]

\* lib.rs Error::Field and error.rs Error::Unstructured: a list of reasons
Field(xs) == [msgs |-> xs]
Unstructured(xs) == [msgs |-> xs]
\* Error::Structured: a map from Location to Error
Structured(m) == [map |-> m]
IsStructured(e) == "map" \in DOMAIN e
IsUnstructured(e) == "msgs" \in DOMAIN e

\* Error::new(message)
Error_new(message) == Field(<<message>>)
error_Error_new(message) == Unstructured(<<message>>)

\* the empty HashMap, and a HashMap holding one entry
EmptyMap == [k \in {} |-> None]
Single(k, v) == [x \in {k} |-> v]

(***************************************************************************)
(* Error::merge, lib.rs                                                    *)
(***************************************************************************)
\* HashMap::extend: every pair of ys is inserted, replacing an entry of x
\* that has the same key
hashmap_extend(x, ys) ==
    [k \in (DOMAIN x) \cup (DOMAIN ys) |-> IF k \in DOMAIN ys THEN ys[k] ELSE x[k]]

\* a faulty variant of merge: the argument's messages are put before the receiver's
merge_prepends(self, other) ==
    IF IsUnstructured(self)
    THEN IF IsUnstructured(other)
         THEN Field(other.msgs \o self.msgs)
         ELSE PanicWith("can only merge duplicate variants")
    ELSE IF IsStructured(other)
         THEN Structured(hashmap_extend(self.map, other.map))
         ELSE PanicWith("can only merge duplicate variants")

\* Error::merge: the value left in self, or the panic raised
merge(self, other) ==
    IF IsUnstructured(self)
    THEN IF IsUnstructured(other)
         THEN Field(self.msgs \o other.msgs)
         ELSE PanicWith("can only merge duplicate variants")
    ELSE IF IsStructured(other)
         THEN Structured(hashmap_extend(self.map, other.map))
         ELSE PanicWith("can only merge duplicate variants")

(***************************************************************************)
(* Error::merge, error.rs                                                  *)
(***************************************************************************)
\* Error::merge: the value left in self (this evolution has no panicking branch)
RECURSIVE error_merge(_, _)
error_merge(self, other) ==
    CASE IsUnstructured(self) /\ IsUnstructured(other) ->
            Unstructured(self.msgs \o other.msgs)
      [] IsUnstructured(self) /\ IsStructured(other) ->
            \* std::mem::swap(x, &mut y); x.merge(y)
            error_merge(other, self)
      [] IsStructured(self) /\ IsUnstructured(other) ->
            error_merge(self, Structured(Single(Named("errors"), other)))
      [] IsStructured(self) /\ IsStructured(other) ->
            Structured(
                [k \in (DOMAIN self.map) \cup (DOMAIN other.map) |->
                    IF k \in DOMAIN self.map
                    THEN IF k \in DOMAIN other.map
                         THEN error_merge(self.map[k], other.map[k])
                         ELSE self.map[k]
                    ELSE other.map[k]])

\* Error::merge of the evolution under test
crate_merge(cr, x, y) == IF cr = "lib" THEN merge(x, y) ELSE error_merge(x, y)

\* a second merge on the value a first merge left, unless that one panicked
then_merge(cr, r, y) == IF IsPanic(r) THEN r ELSE crate_merge(cr, r, y)
merge_into(cr, x, r) == IF IsPanic(r) THEN r ELSE crate_merge(cr, x, r)

(***************************************************************************)
(* Measures on error trees                                                 *)
(***************************************************************************)
RECURSIVE SumOver(_, _, _)
SumOver(Op(_), m, D) ==
    IF D = {} THEN 0
    ELSE LET k == CHOOSE k \in D : TRUE
         IN Op(m[k]) + SumOver(Op, m, D \ {k})

\* messages plus map entries of a tree
RECURSIVE Weight(_)
Weight(e) ==
    IF IsStructured(e)
    THEN Cardinality(DOMAIN e.map) + SumOver(Weight, e.map, DOMAIN e.map)
    ELSE Len(e.msgs)

\* number of occurrences of reason m anywhere in a tree
RECURSIVE Count(_, _)
Count(m, e) ==
    IF IsStructured(e)
    THEN LET CountM(x) == Count(m, x) IN SumOver(CountM, e.map, DOMAIN e.map)
    ELSE Cardinality({i \in 1..Len(e.msgs) : e.msgs[i] = m})

\* a tree with the order of the messages of every list forgotten
RECURSIVE Shape(_)
Shape(e) ==
    IF IsStructured(e)
    THEN Structured([k \in DOMAIN e.map |-> Shape(e.map[k])])
    ELSE [bag |-> [m \in {e.msgs[i] : i \in 1..Len(e.msgs)} |-> Count(m, e)]]

(***************************************************************************)
(* The error trees inputs are drawn from                                   *)
(***************************************************************************)
SeqsUpTo(n) == UNION {[1..l -> Msgs] : l \in 1..n}

RECURSIVE Trees(_, _)
Trees(L, n) ==
    IF n <= 0 THEN {}
    ELSE {Unstructured(xs) : xs \in SeqsUpTo(n)}
         \cup UNION {
                {Structured(m) : m \in {f \in [D -> Trees(L, n - Cardinality(D))] :
                                           SumOver(Weight, f, D) <= n - Cardinality(D)}}
                : D \in (SUBSET L) \ {{}}}

\* locations the trees use
LibLocs == {NamedField("dummy"), MapKey("errors")}
ErrorLocs == {Named("dummy"), Named("errors")}
CrateLocs(cr) == IF cr = "lib" THEN LibLocs ELSE ErrorLocs

LibPool == Trees(LibLocs, MaxSize)
ErrorPool == Trees(ErrorLocs, MaxSize)
Pool(cr) == IF cr = "lib" THEN LibPool ELSE ErrorPool
LibSmallPool == Trees(LibLocs, MaxSize - 1)
ErrorSmallPool == Trees(ErrorLocs, MaxSize - 1)
SmallPool(cr) == IF cr = "lib" THEN LibSmallPool ELSE ErrorSmallPool

NotCalled == [notcalled |-> TRUE]

(***************************************************************************)
(* SpecMerge: one call a.merge(b) on operands of any shapes                *)
(***************************************************************************)
BuilderIdle ==
    /\ errors = None
    /\ last = None
    /\ registered = <<>>
    /\ nops = 0

InitMerge ==
    /\ crate \in {"lib", "error"}
    /\ pc = "start"
    /\ a \in Pool(crate)
    /\ b \in Pool(crate)
    /\ c = None
    /\ ret = NotCalled
    /\ BuilderIdle

\* lib.rs: a.merge(b)
call_merge ==
    /\ crate = "lib"
    /\ pc = "start"
    /\ ret' = merge(a, b)
    /\ pc' = "done"
    /\ UNCHANGED <<crate, a, b, c, errors, last, registered, nops>>

\* error.rs: a.merge(b)
call_error_merge ==
    /\ crate = "error"
    /\ pc = "start"
    /\ ret' = error_merge(a, b)
    /\ pc' = "done"
    /\ UNCHANGED <<crate, a, b, c, errors, last, registered, nops>>

NextMerge == call_merge \/ call_error_merge

SpecMerge == InitMerge /\ [][NextMerge]_vars

(***************************************************************************)
(* SpecAssoc: (a.merge(b)).merge(c) against a.merge(b.merge(c))            *)
(***************************************************************************)
InitAssoc ==
    /\ crate \in {"lib", "error"}
    /\ pc = "start"
    /\ a \in SmallPool(crate)
    /\ b \in SmallPool(crate)
    /\ c \in SmallPool(crate)
    /\ ret = NotCalled
    /\ BuilderIdle

\* lib.rs: both groupings of the two merges
assoc_merge ==
    /\ crate = "lib"
    /\ pc = "start"
    /\ ret' = [left |-> then_merge("lib", merge(a, b), c),
               right |-> merge_into("lib", a, merge(b, c))]
    /\ pc' = "done"
    /\ UNCHANGED <<crate, a, b, c, errors, last, registered, nops>>

\* error.rs: both groupings of the two merges
assoc_error_merge ==
    /\ crate = "error"
    /\ pc = "start"
    /\ ret' = [left |-> error_merge(error_merge(a, b), c),
               right |-> error_merge(a, error_merge(b, c))]
    /\ pc' = "done"
    /\ UNCHANGED <<crate, a, b, c, errors, last, registered, nops>>

NextAssoc == assoc_merge \/ assoc_error_merge

SpecAssoc == InitAssoc /\ [][NextAssoc]_vars

(***************************************************************************)
(* ErrorBuilder: what callers hand to it                                   *)
(***************************************************************************)
Fields == {"dummy"}
Keys == {"errors"}
Indices == {0}
Names == {"dummy", "errors"}

LibBuilderLocs ==
    {NamedField(f) : f \in Fields} \cup {MapKey(k) : k \in Keys} \cup {Index(i) : i \in Indices}
ErrorBuilderLocs == {Named(n) : n \in Names} \cup {Index(i) : i \in Indices}

\* failures of a check: one reason, bare (a validator's) or under one location (a nested
\* validate()'s)
Failures(L) ==
    {Unstructured(<<m>>) : m \in Msgs}
    \cup {Structured(Single(k, Unstructured(<<m>>))) : k \in L, m \in Msgs}
LibOutcomes == {Ok} \cup {Err(e) : e \in Failures(LibLocs)}
ErrorOutcomes == {Ok} \cup {Err(e) : e \in Failures(ErrorLocs)}

\* the &mut Self the chaining methods return
SelfRef == [self |-> TRUE]

\* a builder that may be called once more
CanCall == pc \in {"open", "built"} /\ nops < MaxOps
\* the failures registered on the current report: build() starts a new one
Reg == IF pc = "built" THEN <<>> ELSE registered

(***************************************************************************)
(* ErrorBuilder, lib.rs                                                    *)
(***************************************************************************)
\* a faulty variant of build_structured: the outcome is tested only after the pending
\* map was taken and is put back whatever the outcome
build_structured_rewraps(errs, loc, result) ==
    IF IsUnstructured(errs) THEN PanicWith("should never happen")
    ELSE LET structured_errs == IF errs = None THEN EmptyMap ELSE errs.map
         IN IF ~IsErr(result) THEN Structured(structured_errs)
            ELSE IF loc \in DOMAIN structured_errs
                 THEN LET merged == merge(structured_errs[loc], result.err)
                      IN IF IsPanic(merged) THEN merged
                         ELSE Structured([structured_errs EXCEPT ![loc] = merged])
                 ELSE Structured(structured_errs @@ (loc :> result.err))

\* the value build_structured leaves in *errs, or the panic it raises
build_structured(errs, loc, result) ==
    IF ~IsErr(result) THEN errs
    ELSE IF IsUnstructured(errs) THEN PanicWith("should never happen")
    ELSE LET structured_errs == IF errs = None THEN EmptyMap ELSE errs.map
         IN IF loc \in DOMAIN structured_errs
            THEN LET merged == merge(structured_errs[loc], result.err)
                 IN IF IsPanic(merged) THEN merged
                    ELSE Structured([structured_errs EXCEPT ![loc] = merged])
            ELSE Structured(structured_errs @@ (loc :> result.err))

\* ErrorBuilder::new()
ErrorBuilder_new ==
    /\ crate = "lib"
    /\ pc = "uninit"
    /\ errors' = None
    /\ pc' = "open"
    /\ last' = [op |-> "new"]
    /\ UNCHANGED <<crate, a, b, c, ret, registered, nops>>

\* ErrorBuilder::extend(existing)
ErrorBuilder_extend ==
    \E existing \in LibOutcomes :
        /\ crate = "lib"
        /\ pc = "uninit"
        /\ errors' = (IF IsErr(existing) THEN existing.err ELSE None)
        /\ pc' = "open"
        /\ last' = [op |-> "extend", result |-> existing]
        /\ registered' = (IF IsErr(existing) THEN <<[extend |-> existing.err]>> ELSE <<>>)
        /\ UNCHANGED <<crate, a, b, c, ret, nops>>

\* ErrorBuilder::contains_errors()
contains_errors ==
    /\ crate = "lib"
    /\ CanCall
    /\ ret' = [bool |-> errors # None]
    /\ last' = [op |-> "contains_errors", before |-> errors]
    /\ nops' = nops + 1
    /\ UNCHANGED <<crate, pc, a, b, c, errors, registered>>

\* a faulty variant of build(): the pending error is returned but stays in the builder
build_keeps_pending ==
    /\ crate = "lib"
    /\ CanCall
    /\ ret' = (IF errors # None THEN Err(errors) ELSE Ok)
    /\ errors' = errors
    /\ pc' = "built"
    /\ last' = [op |-> "build", before |-> errors]
    /\ registered' = Reg
    /\ nops' = nops + 1
    /\ c' = ret'
    /\ UNCHANGED <<crate, a, b>>

\* a faulty variant of build(): the pending error is taken first and the builder's
\* field, by then empty, is what gets tested
build_tests_after_take ==
    /\ crate = "lib"
    /\ CanCall
    /\ errors' = None
    /\ ret' = (IF errors' # None THEN Err(errors) ELSE Ok)
    /\ pc' = "built"
    /\ last' = [op |-> "build", before |-> errors]
    /\ registered' = Reg
    /\ nops' = nops + 1
    /\ c' = ret'
    /\ UNCHANGED <<crate, a, b>>

\* ErrorBuilder::build(); c keeps what the latest build() returned
build ==
    /\ crate = "lib"
    /\ CanCall
    /\ ret' = (IF errors # None THEN Err(errors) ELSE Ok)
    /\ errors' = None
    /\ pc' = "built"
    /\ last' = [op |-> "build", before |-> errors]
    /\ registered' = Reg
    /\ nops' = nops + 1
    /\ c' = ret'
    /\ UNCHANGED <<crate, a, b>>

\* ErrorBuilder::because(message)
because ==
    \E message \in Msgs :
        /\ crate = "lib"
        /\ CanCall
        /\ LET r == IF errors # None
                    THEN merge(errors, Field(<<message>>))
                    ELSE Field(<<message>>)
           IN IF IsPanic(r)
              THEN pc' = "panicked" /\ ret' = r /\ errors' = errors
              ELSE pc' = "open" /\ ret' = SelfRef /\ errors' = r
        /\ last' = [op |-> "because", message |-> message, before |-> errors]
        /\ registered' = Append(Reg, [because |-> message])
        /\ nops' = nops + 1
        /\ UNCHANGED <<crate, a, b, c>>

\* the body shared by at_location, at_field, at_index and at_key:
\* build_structured(&mut self.errors, location, result); self
at(op, location, result) ==
    /\ CanCall
    /\ LET r == build_structured(errors, location, result)
       IN IF IsPanic(r)
          THEN pc' = "panicked" /\ ret' = r /\ errors' = None
          ELSE pc' = "open" /\ ret' = SelfRef /\ errors' = r
    /\ last' = [op |-> op, loc |-> location, result |-> result, before |-> errors]
    /\ registered' = (IF IsErr(result)
                      THEN Append(Reg, [loc |-> location, error |-> result.err])
                      ELSE Reg)
    /\ nops' = nops + 1
    /\ UNCHANGED <<crate, a, b, c>>

\* ErrorBuilder::at_location(location, result)
at_location ==
    \E location \in LibBuilderLocs, result \in LibOutcomes :
        /\ crate = "lib"
        /\ at("at_location", location, result)

\* ErrorBuilder::at_field(field, result)
at_field ==
    \E field \in Fields, result \in LibOutcomes :
        /\ crate = "lib"
        /\ at("at_field", NamedField(field), result)

\* ErrorBuilder::at_index(index, result)
at_index ==
    \E index \in Indices, result \in LibOutcomes :
        /\ crate = "lib"
        /\ at("at_index", Index(index), result)

\* ErrorBuilder::at_key(key, result)
at_key ==
    \E key \in Keys, result \in LibOutcomes :
        /\ crate = "lib"
        /\ at("at_key", MapKey(key), result)

(***************************************************************************)
(* ErrorBuilder, error.rs                                                  *)
(***************************************************************************)
\* the value build_structured leaves in *errs, or the panic it raises
error_build_structured(errs, loc, error) ==
    IF IsUnstructured(errs) THEN PanicWith("should never happen")
    ELSE LET structured_errs == IF errs = None THEN EmptyMap ELSE errs.map
         IN IF loc \in DOMAIN structured_errs
            THEN Structured([structured_errs EXCEPT
                                ![loc] = error_merge(structured_errs[loc], error)])
            ELSE Structured(structured_errs @@ (loc :> error))

\* Error::build()
error_Error_build ==
    /\ crate = "error"
    /\ pc = "uninit"
    /\ errors' = None
    /\ pc' = "open"
    /\ last' = [op |-> "Error_build"]
    /\ UNCHANGED <<crate, a, b, c, ret, registered, nops>>

\* ErrorBuilder::contains_errors()
error_contains_errors ==
    /\ crate = "error"
    /\ CanCall
    /\ ret' = [bool |-> errors # None]
    /\ last' = [op |-> "contains_errors", before |-> errors]
    /\ nops' = nops + 1
    /\ UNCHANGED <<crate, pc, a, b, c, errors, registered>>

\* ErrorBuilder::build(); c keeps what the latest build() returned
error_build ==
    /\ crate = "error"
    /\ CanCall
    /\ ret' = (IF errors # None THEN Err(errors) ELSE Ok)
    /\ errors' = None
    /\ pc' = "built"
    /\ last' = [op |-> "build", before |-> errors]
    /\ registered' = Reg
    /\ nops' = nops + 1
    /\ c' = ret'
    /\ UNCHANGED <<crate, a, b>>

\* the body shared by at_location and try_at_location once there is an error to
\* record: build_structured(&mut self.errors, location, e); self
error_at(op, location, result) ==
    /\ CanCall
    /\ LET r == IF IsErr(result)
                THEN error_build_structured(errors, location, result.err)
                ELSE errors
       IN IF IsPanic(r)
          THEN pc' = "panicked" /\ ret' = r /\ errors' = None
          ELSE pc' = "open" /\ ret' = SelfRef /\ errors' = r
    /\ last' = [op |-> op, loc |-> location, result |-> result, before |-> errors]
    /\ registered' = (IF IsErr(result)
                      THEN Append(Reg, [loc |-> location, error |-> result.err])
                      ELSE Reg)
    /\ nops' = nops + 1
    /\ UNCHANGED <<crate, a, b, c>>

\* ErrorBuilder::at_location(location, message)
error_at_location ==
    \E location \in ErrorBuilderLocs, message \in Msgs :
        /\ crate = "error"
        /\ error_at("at_location", location, Err(error_Error_new(message)))

\* ErrorBuilder::at_named(name, message)
error_at_named ==
    \E name \in Names, message \in Msgs :
        /\ crate = "error"
        /\ error_at("at_named", Named(name), Err(error_Error_new(message)))

\* ErrorBuilder::at_index(index, message)
error_at_index ==
    \E index \in Indices, message \in Msgs :
        /\ crate = "error"
        /\ error_at("at_index", Index(index), Err(error_Error_new(message)))

\* ErrorBuilder::try_at_location(location, result)
error_try_at_location ==
    \E location \in ErrorBuilderLocs, result \in ErrorOutcomes :
        /\ crate = "error"
        /\ error_at("try_at_location", location, result)

\* ErrorBuilder::try_at_named(name, result)
error_try_at_named ==
    \E name \in Names, result \in ErrorOutcomes :
        /\ crate = "error"
        /\ error_at("try_at_named", Named(name), result)

\* ErrorBuilder::try_at_index(index, result)
error_try_at_index ==
    \E index \in Indices, result \in ErrorOutcomes :
        /\ crate = "error"
        /\ error_at("try_at_index", Index(index), result)

(***************************************************************************)
(* Spec: a caller driving one ErrorBuilder of either evolution             *)
(***************************************************************************)
Init ==
    /\ crate \in {"lib", "error"}
    /\ pc = "uninit"
    /\ a = None
    /\ b = None
    /\ c = None
    /\ ret = NotCalled
    /\ BuilderIdle

Next ==
    \/ ErrorBuilder_new
    \/ ErrorBuilder_extend
    \/ contains_errors
    \/ build
    \/ because
    \/ at_location
    \/ at_field
    \/ at_index
    \/ at_key
    \/ error_Error_build
    \/ error_contains_errors
    \/ error_build
    \/ error_at_location
    \/ error_at_named
    \/ error_at_index
    \/ error_try_at_location
    \/ error_try_at_named
    \/ error_try_at_index

Spec == Init /\ [][Next]_vars

(***************************************************************************)
(* Validate: the container implementations of lib.rs                       *)
(*                                                                         *)
(* An element of a container is any value implementing Validate; all the   *)
(* containers do with it is call its validate(), so an element is modelled *)
(* by the outcome of that call (Dummy(bool) of the tests: Ok for true, a   *)
(* bare reason for false; a derived struct: a located reason).             *)
(***************************************************************************)
\* Largest number of elements of a sequence drawn as input
MaxLen == 4
\* Largest key of a map drawn as input (keys are 0..MaxKey)
MaxKey == 2

ElemFailures ==
    {Field(<<"x">>),
     Structured(Single(NamedField("dummy"), Field(<<"y">>))),
     Structured(Single(Index(0), Field(<<"x">>)))}
ElemOutcomes == {Ok} \cup {Err(e) : e \in ElemFailures}

\* Option<T>
Some(x) == [some |-> x]

\* what ErrorBuilder::build() returns for a pending error (or the panic met before it)
build_result(errs) ==
    IF IsPanic(errs) THEN errs
    ELSE IF errs # None THEN Err(errs) ELSE Ok

\* eb.at_index(i, x.validate()) for each remaining (i, x) of an enumerate() that has
\* reached position i
RECURSIVE for_each_at_index(_, _, _)
for_each_at_index(errs, i, rest) ==
    IF rest = <<>> \/ IsPanic(errs) THEN errs
    ELSE for_each_at_index(build_structured(errs, Index(i), Head(rest)), i + 1, Tail(rest))

\* validate_seq(sequence)
validate_seq(sequence) ==
    build_result(for_each_at_index(None, 0, sequence))

\* a faulty variant of Vec::validate: positions are counted from one
Vec_validate_counts_from_one(self) ==
    build_result(for_each_at_index(None, 1, self))

\* <Vec<T> as Validate>::validate
Vec_validate(self) ==
    build_result(for_each_at_index(None, 0, self))

\* <&Option<T> as IntoIterator>::into_iter: no item for None, the value for Some
Option_into_iter(self) ==
    IF self = None THEN <<>> ELSE <<self.some>>

\* <Option<T> as Validate>::validate
Option_validate(self) ==
    validate_seq(Option_into_iter(self))

\* <K as ToString>::to_string for the integer keys of the model: the decimal digits
DigitText == <<"0", "1", "2", "3", "4", "5", "6", "7", "8", "9">>
RECURSIVE to_string(_)
to_string(k) ==
    IF k < 10 THEN <<DigitText[k + 1]>>
    ELSE to_string(k \div 10) \o <<DigitText[(k % 10) + 1]>>

\* the orders in which `for (k, v) in self` may visit a HashMap: any order of its keys
IterationOrders(self) ==
    {order \in [1..Cardinality(DOMAIN self) -> DOMAIN self] :
        \A i, j \in DOMAIN order : order[i] = order[j] => i = j}

\* the body of the loop of HashMap::validate for the keys still to visit
RECURSIVE for_each_at_key(_, _, _)
for_each_at_key(errs, self, order) ==
    IF order = <<>> \/ IsPanic(errs) THEN errs
    ELSE LET k == Head(order)
             result == self[k]
         IN for_each_at_key(IF IsErr(result)
                            THEN build_structured(errs, MapKey(to_string(k)), result)
                            ELSE errs,
                            self, Tail(order))

\* a faulty variant of HashMap::validate: the loop is left at the first failing entry
HashMap_validate_stops_at_first_failure(self, order) ==
    LET failing == SelectSeq(order, LAMBDA k : IsErr(self[k]))
    IN build_result(for_each_at_key(None, self,
                                    IF failing = <<>> THEN <<>> ELSE <<failing[1]>>))

\* a faulty variant of HashMap::validate: entries are filed under the position at which
\* the iteration met them
HashMap_validate_by_position(self, order) ==
    build_result(for_each_at_index(None, 0, [i \in DOMAIN order |-> self[order[i]]]))

\* <HashMap<K, V, S> as Validate>::validate, the map visited in the given order
HashMap_validate(self, order) ==
    build_result(for_each_at_key(None, self, order))

(***************************************************************************)
(* Validate: the implementation #[derive(Validate)] generates              *)
(*                                                                         *)
(* A struct is modelled by its #[validatron] attributes in declaration     *)
(* order, each with the outcome its check has on the value validated:      *)
(* [field, kind, result] with kind "check" for #[validatron(...)] and      *)
(* "recurse" for #[validatron]; and by its type-level                      *)
(* #[validatron(function = "...")] attributes, [function, result].         *)
(* The generated code calls eb.at_named(name, result); the builder         *)
(* method that takes a name and a result is at_field in lib.rs and         *)
(* try_at_named in error.rs.                                               *)
(* A field of a tuple struct has no identifier: its attributes are         *)
(* [position, kind, result].  A type-level function is named by a path,    *)
(* the list of its segments.                                               *)
(* An enum is modelled by its variants in declaration order, the variant   *)
(* the value validated is (present), and its type-level attributes.  A     *)
(* variant is [ident, shape, attrs, members]: shape "unit", "unnamed" or   *)
(* "named"; attrs the variant's own attributes, [kind, result] with kind   *)
(* "marker" for #[validatron] and "function" for                           *)
(* #[validatron(function = "...")] (result: what the function returns on   *)
(* the payload); members the payload components, [ident, attr, result,     *)
(* validate]: attr the component's own attribute ("none", "recurse" or     *)
(* "check"), result the outcome of that constraint on the component and    *)
(* validate what the component's validate() returns.                       *)
(***************************************************************************)
\* Largest number of field attributes of a struct drawn as input
MaxAttrs == 3

StructFields == {"a", "b"}
TypeFunctions == {<<"check_foo">>}

\* what a field's check or a nested validate() may return
DerivedOutcomes(cr) ==
    {Ok,
     Err(Unstructured(<<"x">>)),
     Err(Structured(Single(IF cr = "lib" THEN NamedField("a") ELSE Named("a"),
                           Unstructured(<<"y">>))))}

\* build_named(name, error): the call `eb.at_named(name, error);`
build_named(name, error) == [name |-> name, result |-> error]

\* gen_recurse(field)
gen_recurse(attr) == build_named(attr.field, attr.result)

\* gen_explicit_check(field, path) and gen_argument_check(field, mnv)
gen_check(attr) == build_named(attr.field, attr.result)

\* gen_custom_struct_validation(function): function.get_ident() is None for a path
\* of more than one segment, and the unwrap() of it panics while the derive expands
gen_custom_struct_validation(attr) ==
    IF Len(attr.function) = 1
    THEN build_named(attr.function[1], attr.result)
    ELSE PanicWith("called Option::unwrap() on a None value")

\* build_field_validators(ds): the checks in declaration order, then the recursions
build_field_validators(ds) ==
    LET IsCheck(attr) == "field" \in DOMAIN attr /\ attr.kind = "check"
        IsRecurse(attr) == "field" \in DOMAIN attr /\ attr.kind = "recurse"
        custom == SelectSeq(ds, IsCheck)
        nested == SelectSeq(ds, IsRecurse)
        custom_field_validators == [i \in DOMAIN custom |-> gen_check(custom[i])]
        nested_field_validators == [i \in DOMAIN nested |-> gen_recurse(nested[i])]
    IN custom_field_validators \o nested_field_validators

\* build_type_validator(ast)
build_type_validator(attrs) ==
    [i \in DOMAIN attrs |-> gen_custom_struct_validation(attrs[i])]

RECURSIVE Concat(_)
Concat(ss) == IF ss = <<>> THEN <<>> ELSE Head(ss) \o Concat(Tail(ss))

\* format!("_{}", i), the binding iflet_members gives positional component i
UnnamedIdents == <<"_0", "_1", "_2", "_3", "_4", "_5", "_6", "_7", "_8", "_9">>

\* iflet_members(fields): the bindings of the payload's components
iflet_members(var) ==
    [i \in DOMAIN var.members |->
        IF var.shape = "named" THEN var.members[i].ident ELSE UnnamedIdents[i]]

\* validate_variant_members(tokens): eb.at_named("<binding>", <binding>.validate())
\* for every component
validate_variant_members(tokens, members) ==
    [i \in DOMAIN tokens |-> build_named(tokens[i], members[i].validate)]

\* the statements build_enum_variant_validator emits for one variant, each group under
\* `if let Self::<variant><bindings> = &self`
variant_tokens(de, v) ==
    LET var == de.variants[v]
        fields == iflet_members(var)
    IN IF var.shape = "unit" THEN <<>>
       ELSE [k \in DOMAIN var.attrs |->
                [variant |-> v,
                 calls |-> IF var.attrs[k].kind = "marker"
                           THEN validate_variant_members(fields, var.members)
                           ELSE <<build_named(var.ident, var.attrs[k].result)>>]]

\* build_enum_variant_validator(de)
build_enum_variant_validator(de) ==
    Concat([v \in DOMAIN de.variants |-> variant_tokens(de, v)])

\* a faulty variant of the matching: every group runs, whatever variant the value is
matching_statements_of_every_variant(tokens, present) ==
    Concat([k \in DOMAIN tokens |-> tokens[k].calls])

\* the statements of the groups whose `if let` matches the value
matching_statements(tokens, present) ==
    Concat([k \in DOMAIN tokens |->
               IF tokens[k].variant = present THEN tokens[k].calls ELSE <<>>])

\* a faulty variant of the generated statements: they stop at the first failure
derived_calls_stop_at_failure(cr, errs, calls) ==
    LET failing == SelectSeq(calls, LAMBDA call : IsErr(call.result))
    IN IF failing = <<>> THEN errs
       ELSE build_structured(errs, IF cr = "lib" THEN NamedField(failing[1].name)
                                   ELSE Named(failing[1].name),
                             failing[1].result)

\* eb.at_named(name, result) of the generated code
derived_at_named(cr, errs, name, result) ==
    IF cr = "lib" THEN build_structured(errs, NamedField(name), result)
    ELSE IF IsErr(result) THEN error_build_structured(errs, Named(name), result.err)
    ELSE errs

RECURSIVE derived_calls(_, _, _)
derived_calls(cr, errs, calls) ==
    IF calls = <<>> \/ IsPanic(errs) THEN errs
    ELSE derived_calls(cr,
                       derived_at_named(cr, errs, Head(calls).name, Head(calls).result),
                       Tail(calls))

\* the eb.at_named statements the generated validate() runs on the value, in order
\* ([statements |-> ...]); or the panic that stops the expansion of the derive
generated_statements(self) ==
    LET type_validators == build_type_validator(self.attrs)
        field_validators == IF "fields" \in DOMAIN self
                            THEN build_field_validators(self.fields) ELSE <<>>
        variant_validators == IF "variants" \in DOMAIN self
                              THEN build_enum_variant_validator(self) ELSE <<>>
        panicking == {i \in DOMAIN type_validators : IsPanic(type_validators[i])}
    IN IF panicking # {}
       THEN type_validators[CHOOSE i \in panicking : \A j \in panicking : i <= j]
       ELSE [statements |->
                field_validators
                \o (IF "variants" \in DOMAIN self
                    THEN matching_statements(variant_validators, self.present)
                    ELSE <<>>)
                \o type_validators]

\* the validate() impl_validatron generates
impl_validatron(cr, self) ==
    LET expansion == generated_statements(self)
    IN IF IsPanic(expansion) THEN expansion
       ELSE build_result(derived_calls(cr, None, expansion.statements))

\* ghost: the statements of the generated validate() that a call of it reaches (a
\* panicking eb.at_named is the last one)
RECURSIVE reached(_, _, _)
reached(cr, errs, calls) ==
    IF calls = <<>> THEN <<>>
    ELSE LET next == derived_at_named(cr, errs, Head(calls).name, Head(calls).result)
         IN <<Head(calls)>>
            \o (IF IsPanic(next) THEN <<>> ELSE reached(cr, next, Tail(calls)))

(***************************************************************************)
(* SpecValidate: validate() called, and called again, on one value         *)
(***************************************************************************)
SeqsOf(S, n) == UNION {[1..l -> S] : l \in 0..n}

Containers ==
    {[vec |-> s] : s \in SeqsOf(ElemOutcomes, MaxLen)}
    \cup {[seq |-> s] : s \in SeqsOf(ElemOutcomes, MaxLen)}
    \cup {[option |-> o] : o \in {None} \cup {Some(x) : x \in ElemOutcomes}}
    \cup {[hashmap |-> m] : m \in UNION {[D -> ElemOutcomes] : D \in SUBSET (0..MaxKey)}}

FieldAttrs(cr) ==
    [field : StructFields, kind : {"check", "recurse"}, result : DerivedOutcomes(cr)]
TypeAttrs(cr) == [function : TypeFunctions, result : DerivedOutcomes(cr)]
\* self.f.validate() has one outcome however often a field f is marked #[validatron]
OneOutcomePerRecursion(ds) ==
    \A i, j \in DOMAIN ds :
        (ds[i].kind = "recurse" /\ ds[j].kind = "recurse" /\ ds[i].field = ds[j].field)
            => ds[i].result = ds[j].result
Structs(cr) ==
    {[struct |-> [fields |-> ds, attrs |-> ts]] :
        ds \in {d \in SeqsOf(FieldAttrs(cr), MaxAttrs) : OneOutcomePerRecursion(d)},
        ts \in SeqsOf(TypeAttrs(cr), 1)}

IsVec == "vec" \in DOMAIN a
IsSeq == "seq" \in DOMAIN a
IsOption == "option" \in DOMAIN a
IsHashMap == "hashmap" \in DOMAIN a
IsStruct == "struct" \in DOMAIN a

InitValidate ==
    /\ crate \in {"lib", "error"}
    /\ pc = "start"
    /\ \/ crate = "lib" /\ a \in Containers
       \/ a \in Structs(crate)
    /\ b = None
    /\ c = None
    /\ ret = NotCalled
    /\ BuilderIdle

\* validate_seq(v) for a deque, list, ordered set or heap v
call_validate_seq ==
    /\ pc = "start"
    /\ IsSeq
    /\ ret' = validate_seq(a.seq)
    /\ pc' = "validated"
    /\ last' = [op |-> "validate_seq"]
    /\ UNCHANGED <<crate, a, b, c, errors, registered, nops>>

\* v.validate() for a Vec v
call_Vec_validate ==
    /\ pc = "start"
    /\ IsVec
    /\ ret' = Vec_validate(a.vec)
    /\ pc' = "validated"
    /\ last' = [op |-> "Vec_validate"]
    /\ UNCHANGED <<crate, a, b, c, errors, registered, nops>>

\* v.validate() for an Option v
call_Option_validate ==
    /\ pc = "start"
    /\ IsOption
    /\ ret' = Option_validate(a.option)
    /\ pc' = "validated"
    /\ last' = [op |-> "Option_validate"]
    /\ UNCHANGED <<crate, a, b, c, errors, registered, nops>>

\* v.validate() for a HashMap v; b records the order the iteration took
call_HashMap_validate ==
    /\ pc = "start"
    /\ IsHashMap
    /\ \E order \in IterationOrders(a.hashmap) :
          /\ ret' = HashMap_validate(a.hashmap, order)
          /\ b' = order
    /\ pc' = "validated"
    /\ last' = [op |-> "HashMap_validate"]
    /\ UNCHANGED <<crate, a, c, errors, registered, nops>>

\* v.validate() for a struct v deriving Validate
call_impl_validatron ==
    /\ pc = "start"
    /\ IsStruct
    /\ ret' = impl_validatron(crate, a.struct)
    /\ pc' = "validated"
    /\ last' = [op |-> "impl_validatron"]
    /\ UNCHANGED <<crate, a, b, c, errors, registered, nops>>

\* v.validate() once more on the same, unchanged v; the result goes to c
call_validate_again ==
    /\ pc = "validated"
    /\ \/ IsSeq /\ c' = validate_seq(a.seq)
       \/ IsVec /\ c' = Vec_validate(a.vec)
       \/ IsOption /\ c' = Option_validate(a.option)
       \/ IsStruct /\ c' = impl_validatron(crate, a.struct)
    /\ pc' = "revalidated"
    /\ last' = [op |-> "validate_again"]
    /\ UNCHANGED <<crate, a, b, ret, errors, registered, nops>>

\* v.validate() once more on the same, unchanged HashMap v; last records the order
\* this iteration took
call_HashMap_validate_again ==
    /\ pc = "validated"
    /\ IsHashMap
    /\ \E order \in IterationOrders(a.hashmap) :
          /\ c' = HashMap_validate(a.hashmap, order)
          /\ last' = [op |-> "HashMap_validate_again", order |-> order]
    /\ pc' = "revalidated"
    /\ UNCHANGED <<crate, a, b, ret, errors, registered, nops>>

NextValidate ==
    \/ call_validate_seq
    \/ call_Vec_validate
    \/ call_Option_validate
    \/ call_HashMap_validate
    \/ call_impl_validatron
    \/ call_validate_again
    \/ call_HashMap_validate_again

SpecValidate == InitValidate /\ [][NextValidate]_vars

(***************************************************************************)
(* SpecDerive: the generated validate() called on a struct, a tuple struct *)
(* or an enum                                                              *)
(***************************************************************************)
\* Largest number of payload components of a variant, of positions of a tuple
\* struct and of field attributes of a struct drawn as input
MaxMembers == 2

VariantIdents == <<"First", "Second">>
MemberIdents == <<"a", "b", "c">>
TypePaths == TypeFunctions \cup {<<"my", "nested", "validators", "check_foo">>}

TypePathAttrs(cr) == [function : TypePaths, result : DerivedOutcomes(cr)]

\* a payload component: its own attribute, the outcome of that constraint, and the
\* outcome of its validate() (the same thing when the attribute is #[validatron])
MemberKinds ==
    {[attr |-> "none", result |-> Ok, validate |-> v] :
        v \in {Ok, Err(Unstructured(<<"x">>))}}
    \cup {[attr |-> "recurse", result |-> r, validate |-> r] :
            r \in {Ok, Err(Unstructured(<<"x">>))}}
    \cup {[attr |-> "check", result |-> r, validate |-> Ok] :
            r \in {Ok, Err(Unstructured(<<"x">>))}}

Payloads(shape) ==
    UNION {{[i \in 1..n |->
                IF shape = "named"
                THEN [ident |-> MemberIdents[i], attr |-> ks[i].attr,
                      result |-> ks[i].result, validate |-> ks[i].validate]
                ELSE ks[i]] : ks \in [1..n -> MemberKinds]} : n \in 1..MaxMembers}

Marker == [kind |-> "marker", result |-> Ok]
VariantOutcomes == {Ok, Err(Unstructured(<<"z">>))}
VariantAttrs ==
    {<<>>, <<Marker>>}
    \cup {<<[kind |-> "function", result |-> r]>> : r \in VariantOutcomes}
    \cup {<<Marker, [kind |-> "function", result |-> r]>> : r \in VariantOutcomes}

\* the variants declared at position v
Variants(v) ==
    {[ident |-> VariantIdents[v], shape |-> "unit", attrs |-> va, members |-> <<>>] :
        va \in VariantAttrs}
    \cup UNION {{[ident |-> VariantIdents[v], shape |-> sh, attrs |-> va, members |-> p] :
                    va \in VariantAttrs, p \in Payloads(sh)} :
                sh \in {"unnamed", "named"}}

\* a variant the value is not: everything declared on it would fail
OtherVariants(v) ==
    {[ident |-> VariantIdents[v], shape |-> "unit", attrs |-> <<Marker>>, members |-> <<>>],
     [ident |-> VariantIdents[v], shape |-> "unnamed",
      attrs |-> <<Marker, [kind |-> "function", result |-> Err(Unstructured(<<"y">>))]>>,
      members |-> <<[attr |-> "recurse", result |-> Err(Unstructured(<<"y">>)),
                     validate |-> Err(Unstructured(<<"y">>))]>>]}

Enums(cr) ==
    {[enum |-> [variants |-> vs.variants, present |-> vs.present, attrs |-> ts]] :
        vs \in {[variants |-> <<x>>, present |-> 1] : x \in Variants(1)}
               \cup {[variants |-> <<x, o>>, present |-> 1] :
                        x \in Variants(1), o \in OtherVariants(2)}
               \cup {[variants |-> <<o, x>>, present |-> 2] :
                        o \in OtherVariants(1), x \in Variants(2)},
        ts \in SeqsOf([function : TypeFunctions, result : VariantOutcomes], 1)}

PositionAttrs(cr) ==
    [position : 0..(MaxMembers - 1), kind : {"check", "recurse"},
     result : VariantOutcomes]
TupleStructs(cr) ==
    {[tuple_struct |-> [fields |-> ds, attrs |-> ts]] :
        ds \in SeqsOf(PositionAttrs(cr), MaxMembers), ts \in SeqsOf(TypePathAttrs(cr), 1)}

PathStructs(cr) ==
    {[struct |-> [fields |-> ds, attrs |-> ts]] :
        ds \in {d \in SeqsOf(FieldAttrs(cr), MaxMembers) : OneOutcomePerRecursion(d)},
        ts \in SeqsOf(TypePathAttrs(cr), 1)}

IsTupleStruct == "tuple_struct" \in DOMAIN a
IsEnum == "enum" \in DOMAIN a

\* the value in a, whatever its kind
Derived ==
    IF IsStruct THEN a.struct ELSE IF IsTupleStruct THEN a.tuple_struct ELSE a.enum

InitDerive ==
    /\ crate \in {"lib", "error"}
    /\ pc = "start"
    /\ a \in PathStructs(crate) \cup TupleStructs(crate) \cup Enums(crate)
    /\ b = None
    /\ c = None
    /\ ret = NotCalled
    /\ BuilderIdle

\* v.validate() for a value v of a type deriving Validate; last records the
\* eb.at_named statements the call reached, in order, and how often it called build()
call_derived_validate ==
    /\ pc = "start"
    /\ LET expansion == generated_statements(Derived)
           result == impl_validatron(crate, Derived)
       IN /\ ret' = result
          /\ last' = [op |-> "derived_validate",
                      calls |-> IF IsPanic(expansion) THEN <<>>
                                ELSE reached(crate, None, expansion.statements),
                      builds |-> IF IsPanic(result) THEN 0 ELSE 1]
    /\ pc' = "validated"
    /\ UNCHANGED <<crate, a, b, c, errors, registered, nops>>

NextDerive == call_derived_validate

SpecDerive == InitDerive /\ [][NextDerive]_vars

(***************************************************************************)
(* SpecMergeCalls: the calls one a.merge(b) of error.rs makes, one by one  *)
(***************************************************************************)
\* Cap on the number of calls of merge followed
MaxCalls == 30

\* c is the stack of the calls of merge still to run, the running one on top; a frame
\* holds the operands and how many cross-shape calls led to it at its nesting level
Frame(self, other, crossed) == [self |-> self, other |-> other, crossed |-> crossed]
Top == c[Len(c)]
Running == pc = "merging" /\ c # <<>> /\ nops < MaxCalls

\* the orders in which `for (k, v) in ys` may meet the keys K
KeyOrders(K) ==
    {order \in [1..Cardinality(K) -> K] :
        \A i, j \in 1..Cardinality(K) : order[i] = order[j] => i = j}

InitMergeCalls ==
    /\ crate = "error"
    /\ pc = "merging"
    /\ a \in ErrorSmallPool
    /\ b \in ErrorSmallPool
    /\ c = <<Frame(a, b, 0)>>
    /\ ret = NotCalled
    /\ BuilderIdle

\* (Error::Unstructured(xs), Error::Unstructured(ys)) => xs.extend(ys): no further call
merge_extend ==
    /\ Running
    /\ IsUnstructured(Top.self) /\ IsUnstructured(Top.other)
    /\ c' = SubSeq(c, 1, Len(c) - 1)
    /\ last' = [op |-> "extend", crossed |-> Top.crossed]
    /\ nops' = nops + 1
    /\ UNCHANGED <<crate, pc, a, b, ret, errors, registered>>

\* a faulty variant of the wrap: the operands are swapped back
merge_wrap_swaps_back ==
    /\ Running
    /\ IsStructured(Top.self) /\ IsUnstructured(Top.other)
    /\ c' = [c EXCEPT ![Len(c)] = Frame(Top.other, Top.self, Top.crossed + 1)]
    /\ last' = [op |-> "wrap", crossed |-> Top.crossed]
    /\ nops' = nops + 1
    /\ UNCHANGED <<crate, pc, a, b, ret, errors, registered>>

\* (x @ Error::Unstructured(_), mut y @ Error::Structured(_)) => swap, x.merge(y)
merge_swap ==
    /\ Running
    /\ IsUnstructured(Top.self) /\ IsStructured(Top.other)
    /\ c' = [c EXCEPT ![Len(c)] = Frame(Top.other, Top.self, Top.crossed + 1)]
    /\ last' = [op |-> "swap", crossed |-> Top.crossed]
    /\ nops' = nops + 1
    /\ UNCHANGED <<crate, pc, a, b, ret, errors, registered>>

\* (x @ Error::Structured(_), y @ Error::Unstructured(_)) => y goes into a map under
\* Named("errors"), x.merge(Error::Structured(map))
merge_wrap ==
    /\ Running
    /\ IsStructured(Top.self) /\ IsUnstructured(Top.other)
    /\ c' = [c EXCEPT ![Len(c)] =
                Frame(Top.self, Structured(Single(Named("errors"), Top.other)),
                      Top.crossed + 1)]
    /\ last' = [op |-> "wrap", crossed |-> Top.crossed]
    /\ nops' = nops + 1
    /\ UNCHANGED <<crate, pc, a, b, ret, errors, registered>>

\* (Error::Structured(x), Error::Structured(ys)) => one call entry.merge(v) for every
\* key of ys that x holds, in the order the map yields them
merge_entries ==
    /\ Running
    /\ IsStructured(Top.self) /\ IsStructured(Top.other)
    /\ \E order \in KeyOrders(DOMAIN Top.self.map \cap DOMAIN Top.other.map) :
          c' = SubSeq(c, 1, Len(c) - 1)
               \o [i \in DOMAIN order |->
                      Frame(Top.self.map[order[Len(order) + 1 - i]],
                            Top.other.map[order[Len(order) + 1 - i]], 0)]
    /\ last' = [op |-> "entries", crossed |-> Top.crossed]
    /\ nops' = nops + 1
    /\ UNCHANGED <<crate, pc, a, b, ret, errors, registered>>

\* the outermost call returns, the merged error in self
merge_returns ==
    /\ pc = "merging"
    /\ c = <<>>
    /\ pc' = "done"
    /\ ret' = error_merge(a, b)
    /\ UNCHANGED <<crate, a, b, c, errors, last, registered, nops>>

NextMergeCalls ==
    \/ merge_extend
    \/ merge_swap
    \/ merge_wrap
    \/ merge_entries
    \/ merge_returns

SpecMergeCalls == InitMergeCalls /\ [][NextMergeCalls]_vars

\* the calls are the steps of one thread: a call that can run does run
FairMergeCalls == SpecMergeCalls /\ WF_vars(NextMergeCalls)

(***************************************************************************)
(* validators.rs: the comparison and length checks                         *)
(*                                                                         *)
(* A message built by format! is modelled by the list of its pieces, the   *)
(* numbers rendered digit by digit.                                        *)
(***************************************************************************)
\* Largest magnitude of a value or bound handed to min / max
MaxVal == 3

\* <i64 as Display>::fmt
display(n) == IF n < 0 THEN <<"-">> \o to_string(0 - n) ELSE to_string(n)

\* validators::is_required(value)
is_required(value) ==
    IF value = None
    THEN Err(Error_new(<<"Option is required to have a value">>))
    ELSE Ok

\* validators::is_equal(value, other)
is_equal(value, other) ==
    IF value = other THEN Ok
    ELSE Err(Error_new(<<"'">> \o display(value) \o <<"' must equal '">>
                       \o display(other) \o <<"'">>))

\* a faulty variant of min: the bound itself is refused
min_exclusive(value, min_value) ==
    IF value <= min_value
    THEN Err(Error_new(<<"'">> \o display(value)
                       \o <<"' must be greater than or equal to '">>
                       \o display(min_value) \o <<"'">>))
    ELSE Ok

\* validators::min(value, min)
min(value, min_value) ==
    IF value < min_value
    THEN Err(Error_new(<<"'">> \o display(value)
                       \o <<"' must be greater than or equal to '">>
                       \o display(min_value) \o <<"'">>))
    ELSE Ok

\* validators::option_min(value, min_value)
option_min(value, min_value) ==
    IF value # None THEN min(value.some, min_value) ELSE Ok

\* validators::max(value, max)
max(value, max_value) ==
    IF value > max_value
    THEN Err(Error_new(<<"'">> \o display(value)
                       \o <<"' must be less than or equal to '">>
                       \o display(max_value) \o <<"'">>))
    ELSE Ok

\* validators::option_max(value, max_value)
option_max(value, max_value) ==
    IF value # None THEN max(value.some, max_value) ELSE Ok

\* Iterator::count: the items are consumed one by one
RECURSIVE count(_)
count(items) == IF items = <<>> THEN 0 ELSE 1 + count(Tail(items))

\* sequence_length(iterable), the iterable given by the items its iterator yields
sequence_length(items) == count(items)

\* a faulty variant of is_min_length: a sequence of exactly the minimum is refused
is_min_length_exclusive(items, min_length) ==
    LET len == sequence_length(items)
    IN IF len <= min_length
       THEN Err(Error_new(<<"sequence does not have enough elements, it has ">>
                          \o to_string(len) \o <<" but the minimum is ">>
                          \o to_string(min_length)))
       ELSE Ok

\* validators::is_min_length(iterable, min_length)
is_min_length(items, min_length) ==
    LET len == sequence_length(items)
    IN IF len < min_length
       THEN Err(Error_new(<<"sequence does not have enough elements, it has ">>
                          \o to_string(len) \o <<" but the minimum is ">>
                          \o to_string(min_length)))
       ELSE Ok

\* validators::is_max_length(iterable, max_length)
is_max_length(items, max_length) ==
    LET len == sequence_length(items)
    IN IF len > max_length
       THEN Err(Error_new(<<"sequence has too many elements, it has ">>
                          \o to_string(len) \o <<" but the maximum is ">>
                          \o to_string(max_length)))
       ELSE Ok

(***************************************************************************)
(* SpecValidators: one validator applied to one value and one bound        *)
(***************************************************************************)
Vals == (0 - MaxVal)..MaxVal
Item == [item |-> TRUE]

Comparables ==
    {[value |-> v] : v \in Vals}
    \cup {[option |-> o] : o \in {None} \cup {Some(v) : v \in Vals}}
Countables ==
    {[vec |-> s] : s \in SeqsOf({Item}, MaxLen)}
    \cup {[hashmap |-> m] : m \in UNION {[D -> {Item}] : D \in SUBSET (0..MaxKey)}}

IsValue == "value" \in DOMAIN a

\* the items <&C as IntoIterator>::into_iter may yield for the container in a: the
\* elements of a Vec in order, the (key, value) pairs of a HashMap in any order
IntoIters ==
    IF IsVec THEN {a.vec}
    ELSE {[i \in DOMAIN order |-> <<order[i], a.hashmap[order[i]]>>] :
             order \in IterationOrders(a.hashmap)}

InitValidators ==
    /\ crate = "lib"
    /\ pc = "start"
    /\ \/ a \in Comparables /\ b \in Vals
       \/ a \in Countables /\ b \in 0..(MaxLen + 1)
    /\ c = None
    /\ ret = NotCalled
    /\ BuilderIdle

call_is_required ==
    /\ pc = "start"
    /\ IsOption
    /\ ret' = is_required(a.option)
    /\ pc' = "done"
    /\ last' = [op |-> "is_required"]
    /\ UNCHANGED <<crate, a, b, c, errors, registered, nops>>

call_is_equal ==
    /\ pc = "start"
    /\ IsValue
    /\ ret' = is_equal(a.value, b)
    /\ pc' = "done"
    /\ last' = [op |-> "is_equal"]
    /\ UNCHANGED <<crate, a, b, c, errors, registered, nops>>

call_min ==
    /\ pc = "start"
    /\ IsValue
    /\ ret' = min(a.value, b)
    /\ pc' = "done"
    /\ last' = [op |-> "min"]
    /\ UNCHANGED <<crate, a, b, c, errors, registered, nops>>

call_max ==
    /\ pc = "start"
    /\ IsValue
    /\ ret' = max(a.value, b)
    /\ pc' = "done"
    /\ last' = [op |-> "max"]
    /\ UNCHANGED <<crate, a, b, c, errors, registered, nops>>

call_option_min ==
    /\ pc = "start"
    /\ IsOption
    /\ ret' = option_min(a.option, b)
    /\ pc' = "done"
    /\ last' = [op |-> "option_min"]
    /\ UNCHANGED <<crate, a, b, c, errors, registered, nops>>

call_option_max ==
    /\ pc = "start"
    /\ IsOption
    /\ ret' = option_max(a.option, b)
    /\ pc' = "done"
    /\ last' = [op |-> "option_max"]
    /\ UNCHANGED <<crate, a, b, c, errors, registered, nops>>

call_is_min_length ==
    /\ pc = "start"
    /\ IsVec \/ IsHashMap
    /\ \E items \in IntoIters : ret' = is_min_length(items, b)
    /\ pc' = "done"
    /\ last' = [op |-> "is_min_length"]
    /\ UNCHANGED <<crate, a, b, c, errors, registered, nops>>

call_is_max_length ==
    /\ pc = "start"
    /\ IsVec \/ IsHashMap
    /\ \E items \in IntoIters : ret' = is_max_length(items, b)
    /\ pc' = "done"
    /\ last' = [op |-> "is_max_length"]
    /\ UNCHANGED <<crate, a, b, c, errors, registered, nops>>

NextValidators ==
    \/ call_is_required
    \/ call_is_equal
    \/ call_min
    \/ call_max
    \/ call_option_min
    \/ call_option_max
    \/ call_is_min_length
    \/ call_is_max_length

SpecValidators == InitValidators /\ [][NextValidators]_vars

(***************************************************************************)
(* Properties of Error::merge (SpecMerge, SpecAssoc)                       *)
(***************************************************************************)
\* the location the cross-shape rule files bare messages under
ErrorsKey(cr) == IF cr = "lib" THEN MapKey("errors") ELSE Named("errors")

\* C1: merging two Structured errors gives a Structured error over the union of
\* their keys; a key of both holds the merge of the two entries, a key of one side
\* holds that side's entry unchanged, and no reason of a's entry is lost to b's.
C1_StructuredMergeIsRecursiveUnion ==
    (pc = "done" /\ IsStructured(a) /\ IsStructured(b)) =>
        /\ ~IsPanic(ret)
        /\ IsStructured(ret)
        /\ DOMAIN ret.map = (DOMAIN a.map) \cup (DOMAIN b.map)
        /\ \A k \in DOMAIN ret.map :
              ret.map[k] = IF k \in DOMAIN a.map
                           THEN IF k \in DOMAIN b.map
                                THEN crate_merge(crate, a.map[k], b.map[k])
                                ELSE a.map[k]
                           ELSE b.map[k]
        /\ \A k \in DOMAIN a.map : \A m \in Msgs :
              Count(m, ret.map[k]) >= Count(m, a.map[k])

\* C2: merging an Unstructured error u and a Structured error s, in either order,
\* does not panic and gives s with u filed under the "errors" location: every other
\* entry of s unchanged, and the "errors" entry u itself or the merge of s's own
\* "errors" entry with u.
C2_CrossShapeMergeWraps ==
    (pc = "done" /\ IsUnstructured(a) # IsUnstructured(b)) =>
        LET u == IF IsUnstructured(a) THEN a ELSE b
            s == IF IsStructured(a) THEN a ELSE b
            key == ErrorsKey(crate)
        IN /\ ~IsPanic(ret)
           /\ IsStructured(ret)
           /\ DOMAIN ret.map = (DOMAIN s.map) \cup {key}
           /\ \A k \in (DOMAIN s.map) \ {key} : ret.map[k] = s.map[k]
           /\ ret.map[key] = IF key \in DOMAIN s.map
                             THEN crate_merge(crate, s.map[key], u)
                             ELSE u

\* C3: merging Unstructured(xs) with Unstructured(ys) gives Unstructured(xs ++ ys):
\* the receiver's messages first, then the argument's, each in its order, none
\* dropped or deduplicated.
C3_UnstructuredMergeConcatenates ==
    (pc = "done" /\ IsUnstructured(a) /\ IsUnstructured(b)) =>
        /\ IsUnstructured(ret)
        /\ Len(ret.msgs) = Len(a.msgs) + Len(b.msgs)
        /\ \A i \in 1..Len(a.msgs) : ret.msgs[i] = a.msgs[i]
        /\ \A j \in 1..Len(b.msgs) : ret.msgs[Len(a.msgs) + j] = b.msgs[j]

\* C3's case: a two-message receiver merged with an argument repeating one of them
C3_Witness ==
    /\ pc = "done"
    /\ a = Unstructured(<<"x", "y">>)
    /\ b = Unstructured(<<"x">>)
    /\ ret = Unstructured(<<"x", "y", "x">>)

\* C4: for operands of any shapes both groupings of two merges give a tree, with
\* the same locations and, at every list of messages, the same multiset of messages.
C4_MergeAssociativeUpToOrder ==
    pc = "done" =>
        /\ ~IsPanic(ret.left)
        /\ ~IsPanic(ret.right)
        /\ Shape(ret.left) = Shape(ret.right)

\* C5: for operands of any shapes the merge gives a tree in which every reason
\* occurs as often as in a and b together.
C5_MergeLosesNoReason ==
    pc = "done" =>
        /\ ~IsPanic(ret)
        /\ \A m \in Msgs : Count(m, ret) = Count(m, a) + Count(m, b)

(***************************************************************************)
(* Properties of the ErrorBuilder (Spec)                                   *)
(***************************************************************************)
\* the calls that attach an outcome or a message to a location
AtOps ==
    {"at_location", "at_field", "at_index", "at_key", "at_named",
     "try_at_location", "try_at_named", "try_at_index"}
AtCalled == "op" \in DOMAIN last /\ last.op \in AtOps
BecauseCalled == "op" \in DOMAIN last /\ last.op = "because"
BuildCalled == "op" \in DOMAIN last /\ last.op = "build"

\* the number of times reason m was handed to the builder
RECURSIVE RegisteredCount(_, _)
RegisteredCount(m, regs) ==
    IF regs = <<>> THEN 0
    ELSE LET r == Head(regs)
             here == IF "because" \in DOMAIN r
                     THEN (IF r.because = m THEN 1 ELSE 0)
                     ELSE IF "loc" \in DOMAIN r THEN Count(m, r.error)
                     ELSE Count(m, r.extend)
         IN here + RegisteredCount(m, Tail(regs))

\* a builder made by ErrorBuilder::new() / Error::build(), not from an earlier failure
Fresh == \A i \in 1..Len(registered) : "extend" \notin DOMAIN registered[i]

\* C6: a failing outcome attached to a location that already holds an error is
\* merged into that entry: the call does not panic, every reason of the earlier
\* entry is kept, the new reasons are added, and two lists of messages are joined
\* in call order.
C6_AtMergesIntoExistingEntry ==
    (/\ AtCalled
     /\ IsErr(last.result)
     /\ IsStructured(last.before)
     /\ last.loc \in DOMAIN last.before.map) =>
        LET old == last.before.map[last.loc]
            new == last.result.err
        IN /\ pc # "panicked"
           /\ IsStructured(errors)
           /\ last.loc \in DOMAIN errors.map
           /\ \A m \in Msgs :
                 Count(m, errors.map[last.loc]) = Count(m, old) + Count(m, new)
           /\ (IsUnstructured(old) /\ IsUnstructured(new)) =>
                 errors.map[last.loc] = Unstructured(old.msgs \o new.msgs)

\* C7: on a fresh builder no call panics, and build() returns an error holding
\* every reason handed to at / because: each failing outcome's reasons under its
\* location, each because message somewhere, and as many reasons as were handed in.
C7_EveryRegisteredFailureIsReported ==
    Fresh =>
        /\ pc # "panicked"
        /\ (pc = "built" /\ BuildCalled /\ registered # <<>>) =>
              /\ IsErr(ret)
              /\ \A m \in Msgs : Count(m, ret.err) = RegisteredCount(m, registered)
              /\ \A i \in 1..Len(registered) :
                    LET r == registered[i]
                    IN "loc" \in DOMAIN r =>
                          /\ IsStructured(ret.err)
                          /\ r.loc \in DOMAIN ret.err.map
                          /\ \A m \in Msgs :
                                Count(m, ret.err.map[r.loc]) >= Count(m, r.error)

\* C8: no call that attaches an outcome to a location panics, whatever the pending
\* error of the builder is.
C8_AtNeverPanics ==
    AtCalled => pc # "panicked"

\* C9: because(message) does not panic; on no pending error it leaves
\* Unstructured([message]); on an Unstructured one it appends message; on a
\* Structured one it keeps every located entry and files message under "errors".
C9_BecauseMergesUnstructured ==
    BecauseCalled =>
        LET key == ErrorsKey(crate)
        IN /\ pc # "panicked"
           /\ last.before = None => errors = Unstructured(<<last.message>>)
           /\ IsUnstructured(last.before) =>
                 errors = Unstructured(last.before.msgs \o <<last.message>>)
           /\ IsStructured(last.before) =>
                 /\ IsStructured(errors)
                 /\ DOMAIN errors.map = (DOMAIN last.before.map) \cup {key}
                 /\ \A k \in (DOMAIN last.before.map) \ {key} :
                       errors.map[k] = last.before.map[k]
                 /\ Count(last.message, errors.map[key]) =
                       1 + (IF key \in DOMAIN last.before.map
                            THEN Count(last.message, last.before.map[key])
                            ELSE 0)

\* C10: attaching a successful outcome to a location leaves the pending error as it
\* was: no entry is created, an absent pending error stays absent, nothing panics.
C10_SuccessfulOutcomeIsNoOp ==
    (AtCalled /\ last.result = Ok) =>
        /\ pc # "panicked"
        /\ errors = last.before

\* C10's case: a successful outcome attached on a builder with no pending error
C10_Witness ==
    /\ AtCalled
    /\ last.op = "at_index"
    /\ last.result = Ok
    /\ last.before = None
    /\ errors = None
    /\ pc = "open"

\* C11: build() returns success exactly when no failing outcome and no because()
\* message was recorded on the builder (since it was created, or since the build()
\* that last emptied it; an error handed to extend() counts as recorded); otherwise
\* it returns as a failure exactly the pending error accumulated so far.
C11_BuildReturnsPendingError ==
    BuildCalled =>
        /\ (ret = Ok) <=> (registered = <<>>)
        /\ (last.before = None) <=> (registered = <<>>)
        /\ registered # <<>> => ret = Err(last.before)
        /\ errors = None

\* C11's case: build() on a builder holding two because() messages
C11_Witness ==
    /\ BuildCalled
    /\ Len(registered) = 2
    /\ ret = Err(Field(<<"x", "y">>))

\* an error that is, or holds somewhere below it, a map with no entry or a list with
\* no reason
RECURSIVE HasEmptyShell(_)
HasEmptyShell(e) ==
    IF IsStructured(e)
    THEN \/ DOMAIN e.map = {}
         \/ \E k \in DOMAIN e.map : HasEmptyShell(e.map[k])
    ELSE Len(e.msgs) = 0

\* C12: success is silence: the error build() returns, and every error nested in it,
\* is never a Structured with an empty map nor an Unstructured with an empty list; a
\* builder on which every attached outcome passed returns success.
C12_SuccessIsSilence ==
    BuildCalled =>
        /\ IsErr(ret) => ~HasEmptyShell(ret.err)
        /\ registered = <<>> => ret = Ok

\* C12's case: build() after two failures at two locations and nothing else
C12_Witness ==
    /\ BuildCalled
    /\ Len(registered) = 2
    /\ IsErr(ret)
    /\ IsStructured(ret.err)
    /\ Cardinality(DOMAIN ret.err.map) = 2

(***************************************************************************)
(* Properties of validate() (SpecValidate)                                 *)
(***************************************************************************)
Validated == pc = "validated"

\* the location the generated code files a field under
FieldLoc(cr, f) == IF cr = "lib" THEN NamedField(f) ELSE Named(f)

\* the locations of a returned error (none for a success or a bare list of reasons)
Entries(r) ==
    IF IsErr(r) /\ IsStructured(r.err) THEN DOMAIN r.err.map ELSE {}

\* the fields of the struct validated one of whose checks failed
FailingFields ==
    {a.struct.fields[i].field :
        i \in {j \in DOMAIN a.struct.fields : IsErr(a.struct.fields[j].result)}}

\* every field of the struct validated carries one check, and has one attribute
OneCheckEach ==
    \A i, j \in DOMAIN a.struct.fields :
        a.struct.fields[i].field = a.struct.fields[j].field => i = j

\* C13: exhaustiveness: for a struct whose fields each carry a check, validate()
\* returns a Structured error with an entry at the field's name for exactly the
\* fields whose check failed, each entry being that check's error, whatever the
\* order of the fields; it returns success when no check failed.
C13_EveryFailingFieldIsReported ==
    (Validated /\ IsStruct /\ OneCheckEach) =>
        /\ ~IsPanic(ret)
        /\ {f \in StructFields : FieldLoc(crate, f) \in Entries(ret)} = FailingFields
        /\ \A i \in DOMAIN a.struct.fields :
              IsErr(a.struct.fields[i].result) =>
                 ret.err.map[FieldLoc(crate, a.struct.fields[i].field)]
                     = a.struct.fields[i].result.err
        /\ (FailingFields = {} /\ \A i \in DOMAIN a.struct.attrs :
                                      ~IsErr(a.struct.attrs[i].result)) => ret = Ok

\* C13's case: the second declared field fails its check before the first one's
\* recursion fails, and both are reported
C13_Witness ==
    /\ Validated
    /\ IsStruct
    /\ OneCheckEach
    /\ Len(a.struct.fields) = 2
    /\ a.struct.fields[1].kind = "recurse"
    /\ a.struct.fields[2].kind = "check"
    /\ FailingFields = StructFields
    /\ Entries(ret) = {FieldLoc(crate, f) : f \in StructFields}

\* the elements of the sequence validated
Elements == IF IsVec THEN a.vec ELSE a.seq
\* the positions, counted from zero, of the elements that fail
FailingPositions == {i - 1 : i \in {j \in DOMAIN Elements : IsErr(Elements[j])}}

\* C14: validating an ordered container returns success if every element passes,
\* otherwise a Structured error with an entry at Index(i) for exactly the positions i
\* (from zero, in iteration order) whose element fails, each entry being that
\* element's own error.
C14_SequenceReportsFailingPositions ==
    (Validated /\ (IsVec \/ IsSeq)) =>
        IF FailingPositions = {} THEN ret = Ok
        ELSE ret = Err(Structured([loc \in {Index(i) : i \in FailingPositions} |->
                                        Elements[loc.Index + 1].err]))

\* C14's case: [ok, fail, ok, fail] gives entries at exactly Index(1) and Index(3)
C14_Witness ==
    /\ Validated
    /\ IsVec
    /\ a.vec = <<Ok, Err(Field(<<"x">>)), Ok, Err(Field(<<"x">>))>>
    /\ Entries(ret) = {Index(1), Index(3)}

\* the keys of the map validated whose value fails
FailingKeys == {k \in DOMAIN a.hashmap : IsErr(a.hashmap[k])}

\* C15: validating a map returns success if every value passes, otherwise a Structured
\* error with an entry at the key's text form for exactly the keys whose value fails,
\* each entry being that value's own error.
C15_MapReportsFailingKeys ==
    (Validated /\ IsHashMap) =>
        IF FailingKeys = {} THEN ret = Ok
        ELSE /\ IsErr(ret)
             /\ IsStructured(ret.err)
             /\ DOMAIN ret.err.map = {MapKey(to_string(k)) : k \in FailingKeys}
             /\ \A k \in FailingKeys :
                   ret.err.map[MapKey(to_string(k))] = a.hashmap[k].err

\* C15's case: a map of three entries of which the first and the last visited fail
C15_Witness ==
    /\ Validated
    /\ IsHashMap
    /\ DOMAIN a.hashmap = {0, 1, 2}
    /\ IsErr(a.hashmap[b[1]]) /\ ~IsErr(a.hashmap[b[2]]) /\ IsErr(a.hashmap[b[3]])
    /\ Entries(ret) = {MapKey(to_string(b[1])), MapKey(to_string(b[3]))}

\* C16: validating an absent optional value succeeds; validating a present one
\* returns exactly what validating the inner value returns, the same error with no
\* location wrapped around it.
C16_OptionDelegates ==
    (Validated /\ IsOption) =>
        IF a.option = None THEN ret = Ok ELSE ret = a.option.some

\* the recursion declared by attribute i fails, and no other attribute of that field
\* does
OnlyFailureOfItsField(i) ==
    /\ a.struct.fields[i].kind = "recurse"
    /\ IsErr(a.struct.fields[i].result)
    /\ \A j \in DOMAIN a.struct.fields :
          (a.struct.fields[j].field = a.struct.fields[i].field
             /\ IsErr(a.struct.fields[j].result))
                => j = i

\* C17: a struct with a recursively validated field whose validate() fails with E
\* (the field's only failure) returns an error that maps the field's name to exactly
\* E, whatever the other fields do; if every check of the struct passes, so does the
\* struct.
C17_NestedFailureUnderFieldName ==
    (Validated /\ IsStruct) =>
        /\ \A i \in DOMAIN a.struct.fields :
              OnlyFailureOfItsField(i) =>
                 /\ FieldLoc(crate, a.struct.fields[i].field) \in Entries(ret)
                 /\ ret.err.map[FieldLoc(crate, a.struct.fields[i].field)]
                       = a.struct.fields[i].result.err
        /\ (FailingFields = {} /\ \A i \in DOMAIN a.struct.attrs :
                                      ~IsErr(a.struct.attrs[i].result)) => ret = Ok

\* C18: two calls of validate() on the same value, not changed in between, return
\* equal results, also when the second call visits a map in another order.
C18_ValidateIsDeterministic ==
    pc = "revalidated" => c = ret

\* C18's case: a map of three entries, two of them failing, validated twice, the
\* second time in the reverse order
C18_Witness ==
    /\ pc = "revalidated"
    /\ IsHashMap
    /\ Cardinality(FailingKeys) = 2
    /\ Len(b) = 3
    /\ last.order = <<b[3], b[2], b[1]>>
    /\ IsErr(c)

(***************************************************************************)
(* Properties of the validators (SpecValidators)                           *)
(***************************************************************************)
Applied(op) == pc = "done" /\ last.op = op

Size == IF IsVec THEN Len(a.vec) ELSE Cardinality(DOMAIN a.hashmap)

\* C20: is_min_length fails exactly when the container holds fewer than n elements
\* and is_max_length exactly when it holds more than n; the failure is one reason
\* that reports the actual count and the required one; a map counts its entries.
C20_LengthChecksCountElements ==
    /\ Applied("is_min_length") =>
          IF Size < b
          THEN ret = Err(Field(<<
                   <<"sequence does not have enough elements, it has ">>
                   \o to_string(Size) \o <<" but the minimum is ">> \o to_string(b)>>))
          ELSE ret = Ok
    /\ Applied("is_max_length") =>
          IF Size > b
          THEN ret = Err(Field(<<
                   <<"sequence has too many elements, it has ">>
                   \o to_string(Size) \o <<" but the maximum is ">> \o to_string(b)>>))
          ELSE ret = Ok

\* C20's case: a map of exactly the minimum number of entries passed is_min_length
C20_Witness ==
    /\ Applied("is_min_length")
    /\ IsHashMap
    /\ Cardinality(DOMAIN a.hashmap) = 2
    /\ b = 2
    /\ ret = Ok

\* C21: required fails exactly when the value is absent, with an Unstructured error
\* of the single reason "a value is required."; equals, min, max, min_length and
\* max_length fail with an Unstructured error of exactly one reason too.
C21_RequiredAndSingleReason ==
    /\ Applied("is_required") =>
          IF a.option = None
          THEN ret = Err(Unstructured(<< <<"a value is required.">> >>))
          ELSE ret = Ok
    /\ (pc = "done" /\ IsErr(ret)) =>
          /\ IsUnstructured(ret.err)
          /\ Len(ret.err.msgs) = 1

(***************************************************************************)
(* Properties of the derived validate() of enums and tuple structs         *)
(***************************************************************************)
\* the variant the enum value validated is
ThisVariant == a.enum.variants[a.enum.present]

\* the payload components of the value whose own validate() fails
FailingMembers ==
    {i \in DOMAIN ThisVariant.members : IsErr(ThisVariant.members[i].validate)}

\* the variant of the value is validated per component and nothing else is declared
PerComponent == Validated /\ IsEnum /\ a.enum.attrs = <<>> /\ ThisVariant.attrs = <<Marker>>

C22_UnitVariantSucceeds ==
    (Validated /\ IsEnum /\ a.enum.attrs = <<>> /\ ThisVariant.shape = "unit") => ret = Ok

C22_StructPayloadAtNamed ==
    (PerComponent /\ ThisVariant.shape = "named") =>
        /\ Entries(ret) = {FieldLoc(crate, ThisVariant.members[i].ident) : i \in FailingMembers}
        /\ \A i \in FailingMembers :
              ret.err.map[FieldLoc(crate, ThisVariant.members[i].ident)]
                  = ThisVariant.members[i].validate.err

C22_TuplePayloadAtIndex ==
    (PerComponent /\ ThisVariant.shape = "unnamed") =>
        /\ Entries(ret) = {Index(i - 1) : i \in FailingMembers}
        /\ \A i \in FailingMembers :
              ret.err.map[Index(i - 1)] = ThisVariant.members[i].validate.err

\* C22: validating a unit variant returns success; a variant with a tuple-like
\* payload validated per component reports the failure of its i-th component at
\* Index(i) (counted from zero); a variant with a struct-like payload reports the
\* failure of component c at the name c.
C22_VariantPayloadLocations ==
    /\ C22_UnitVariantSucceeds
    /\ C22_StructPayloadAtNamed
    /\ C22_TuplePayloadAtIndex

\* the per-variant functions declared on variant v
VariantFunctions(v) ==
    {k \in DOMAIN a.enum.variants[v].attrs : a.enum.variants[v].attrs[k].kind = "function"}

\* the value is a payload-carrying variant declaring one per-variant function
HasVariantFunction ==
    /\ Validated /\ IsEnum
    /\ ThisVariant.shape # "unit"
    /\ VariantFunctions(a.enum.present) # {}

ThisFunction == ThisVariant.attrs[CHOOSE k \in VariantFunctions(a.enum.present) : TRUE]

\* C23: when the value is a variant that declares a per-variant function, the
\* function is called and its failure (and nothing else) is reported at the name of
\* the variant; the functions and components of the variants the value is not are
\* not called and contribute nothing to the report.
C23_VariantFunctionAtVariantName ==
    /\ HasVariantFunction =>
          /\ [name |-> ThisVariant.ident, result |-> ThisFunction.result]
                \in {last.calls[k] : k \in DOMAIN last.calls}
          /\ IsErr(ThisFunction.result) <=>
                FieldLoc(crate, ThisVariant.ident) \in Entries(ret)
          /\ IsErr(ThisFunction.result) =>
                ret.err.map[FieldLoc(crate, ThisVariant.ident)] = ThisFunction.result.err
    /\ (Validated /\ IsEnum) =>
          \A v \in DOMAIN a.enum.variants \ {a.enum.present} :
             /\ FieldLoc(crate, a.enum.variants[v].ident) \notin Entries(ret)
             /\ \A k \in DOMAIN last.calls :
                   /\ last.calls[k].name # a.enum.variants[v].ident
                   /\ last.calls[k].result # Err(Unstructured(<<"y">>))

\* C23's case: the value's variant and the other variant both declare a function
\* that would fail, and only the value's own is reported
C23_Witness ==
    /\ HasVariantFunction
    /\ IsErr(ThisFunction.result)
    /\ \E v \in DOMAIN a.enum.variants \ {a.enum.present} : VariantFunctions(v) # {}
    /\ Entries(ret) = {FieldLoc(crate, ThisVariant.ident)}

\* every field check, recursion and variant check declared on the value passes
AllFieldChecksPass ==
    /\ "fields" \in DOMAIN Derived =>
          \A i \in DOMAIN Derived.fields : ~IsErr(Derived.fields[i].result)
    /\ IsEnum =>
          /\ \A k \in DOMAIN ThisVariant.attrs : ~IsErr(ThisVariant.attrs[k].result)
          /\ \A i \in DOMAIN ThisVariant.members : ~IsErr(ThisVariant.members[i].validate)

\* the type validated declares one type-level function
OneTypeFunction == Validated /\ Len(Derived.attrs) = 1

TypeFunction == Derived.attrs[1]

LastSegment(path) == path[Len(path)]

\* C24 for functions named by a single identifier
C24_IdentifierFunction ==
    (OneTypeFunction /\ AllFieldChecksPass /\ Len(TypeFunction.function) = 1) =>
        IF IsErr(TypeFunction.result)
        THEN ret = Err(Structured(FieldLoc(crate, TypeFunction.function[1])
                                     :> TypeFunction.result.err))
        ELSE ret = Ok

\* C24: a type-level function of a struct or enum, also one named by a module path,
\* is called with the whole value: when it fails and all field checks pass the result
\* is exactly the Structured error with its error at the last segment of its path;
\* when it succeeds and all field checks pass the result is success.
C24_TypeFunctionAtLastSegment ==
    (OneTypeFunction /\ AllFieldChecksPass) =>
        IF IsErr(TypeFunction.result)
        THEN ret = Err(Structured(FieldLoc(crate, LastSegment(TypeFunction.function))
                                     :> TypeFunction.result.err))
        ELSE ret = Ok

\* the positions of the tuple struct validated one of whose constraints is violated
FailingComponents ==
    {a.tuple_struct.fields[i].position :
        i \in {j \in DOMAIN a.tuple_struct.fields : IsErr(a.tuple_struct.fields[j].result)}}

\* C25: a constraint declared on positional component i of a tuple struct, a check
\* or a recursion, is checked by validate(): validate() fails whenever a component
\* violates its constraint and succeeds otherwise, and each failure is reported at
\* Index(i) with the constraint's error.
C25_TupleStructComponentsAtIndex ==
    (Validated /\ IsTupleStruct /\ a.tuple_struct.attrs = <<>>) =>
        /\ IsErr(ret) <=> FailingComponents # {}
        /\ Entries(ret) = {Index(i) : i \in FailingComponents}
        /\ \A i \in DOMAIN a.tuple_struct.fields :
              (/\ IsErr(a.tuple_struct.fields[i].result)
               /\ \A j \in DOMAIN a.tuple_struct.fields :
                     a.tuple_struct.fields[j].position = a.tuple_struct.fields[i].position
                        => j = i)
                 => ret.err.map[Index(a.tuple_struct.fields[i].position)]
                       = a.tuple_struct.fields[i].result.err

\* the value is a variant all of whose payload components carry a constraint of
\* their own, and nothing but them can fail
ComponentsCarryConstraints ==
    /\ Validated /\ IsEnum /\ a.enum.attrs = <<>>
    /\ ThisVariant.shape # "unit"
    /\ ThisVariant.attrs \in {<<>>, <<Marker>>}
    /\ \A i \in DOMAIN ThisVariant.members : ThisVariant.members[i].attr # "none"

\* C26's second half: the components of the variants the value is not are not checked
C26_OtherVariantsNotChecked ==
    (Validated /\ IsEnum) =>
        \A k \in DOMAIN last.calls : last.calls[k].result # Err(Unstructured(<<"y">>))

\* C26: for a variant whose payload components carry their own constraints,
\* validate() of a value of that variant fails if and only if at least one component
\* violates its constraint, whether or not the variant carries a variant-level
\* annotation; the components of the other variants are never checked.
C26_ComponentConstraintsDecide ==
    /\ ComponentsCarryConstraints =>
          (IsErr(ret) <=> \E i \in DOMAIN ThisVariant.members :
                             IsErr(ThisVariant.members[i].result))
    /\ C26_OtherVariantsNotChecked

\* the registrations the attributes of kind k declared on the fields of the struct
\* validated ask for, in declaration order
FieldRegistrations(k) ==
    LET declared == SelectSeq(a.struct.fields, LAMBDA d : d.kind = k)
    IN [i \in DOMAIN declared |->
           [name |-> declared[i].field, result |-> declared[i].result]]

\* the registrations the variant-level attributes of the variant validated ask for
RECURSIVE VariantRegistrations(_)
VariantRegistrations(k) ==
    IF k > Len(ThisVariant.attrs) THEN <<>>
    ELSE (IF ThisVariant.attrs[k].kind = "function"
          THEN <<[name |-> ThisVariant.ident, result |-> ThisVariant.attrs[k].result]>>
          ELSE [i \in DOMAIN ThisVariant.members |->
                   [name |-> IF ThisVariant.shape = "named"
                             THEN ThisVariant.members[i].ident
                             ELSE UnnamedIdents[i],
                    result |-> ThisVariant.members[i].validate]])
         \o VariantRegistrations(k + 1)

TypeRegistrations ==
    [i \in DOMAIN Derived.attrs |->
        [name |-> LastSegment(Derived.attrs[i].function),
         result |-> Derived.attrs[i].result]]

\* everything the declaration of the value asks to register, in the order of the
\* derived routine: field checks, recursions, variant checks, type-level functions
Registrations ==
    (IF IsStruct THEN FieldRegistrations("check") \o FieldRegistrations("recurse")
     ELSE IF IsEnum /\ ThisVariant.shape # "unit" THEN VariantRegistrations(1)
     ELSE <<>>)
    \o TypeRegistrations

\* the derive expands for the type of the value: there is a derived routine
Expands == ~IsPanic(generated_statements(Derived))

\* C27: a derived validate() registers all the checks declared, whatever their
\* outcomes, in a fixed order: the explicit field checks in declaration order, then
\* the recursive field validations, then the variant checks, then the type-level
\* functions; and it calls build() exactly once, after the last of them.
C27_AllChecksRegisteredInOrder ==
    (Validated /\ (IsStruct \/ IsEnum) /\ Expands) =>
        /\ last.calls = Registrations
        /\ last.builds = 1

\* C27 where the expansion and the merges of lib.rs do not panic
C27_WithoutPanics ==
    (Validated /\ (IsStruct \/ IsEnum) /\ ~IsPanic(ret)) =>
        /\ last.calls = Registrations
        /\ last.builds = 1

(***************************************************************************)
(* Properties of a builder used after build() (Spec)                       *)
(***************************************************************************)
\* the step is a call, on the builder, of one of the operations ops
StepOf(ops) == "op" \in DOMAIN last' /\ last'.op \in ops /\ nops' = nops + 1

\* C28: build() resets the builder: right after build() returned, success or
\* failure, contains_errors() is false; a second build() with no call in between
\* returns success; and a failure registered after a build() starts a new report,
\* holding that failure alone and none of the findings already returned.
C28_BuildResetsTheBuilder ==
    [][/\ StepOf({"build"}) => errors' = None
       /\ (pc = "built" /\ StepOf({"contains_errors"})) => ret' = [bool |-> FALSE]
       /\ (BuildCalled /\ StepOf({"build"})) => ret' = Ok
       /\ (pc = "built" /\ StepOf(AtOps) /\ IsErr(last'.result)) =>
             errors' = Structured(Single(last'.loc, last'.result.err))
       /\ (pc = "built" /\ StepOf({"because"})) => errors' = Field(<<last'.message>>)
      ]_vars

\* C28's case: build() returned a failure, and the failure attached afterwards, at
\* another location, is the whole of the new report
C28_Witness ==
    /\ pc = "open"
    /\ AtCalled
    /\ IsErr(c) /\ IsStructured(c.err)
    /\ IsErr(last.result)
    /\ last.before = None
    /\ errors = Structured(Single(last.loc, last.result.err))
    /\ \A k \in DOMAIN c.err.map : k # last.loc

(***************************************************************************)
(* Properties of merge on an existing "errors" entry (SpecMerge)           *)
(***************************************************************************)
\* the location bare messages are filed under
ErrorsLoc(cr) == IF cr = "lib" THEN MapKey("errors") ELSE Named("errors")

\* the messages ms added to an entry e found at the "errors" location
RECURSIVE Filed(_, _, _)
Filed(cr, e, ms) ==
    IF IsUnstructured(e) THEN Unstructured(e.msgs \o ms)
    ELSE Structured(
            [k \in DOMAIN e.map \cup {ErrorsLoc(cr)} |->
                IF k # ErrorsLoc(cr) THEN e.map[k]
                ELSE IF k \in DOMAIN e.map THEN Filed(cr, e.map[k], ms)
                ELSE Unstructured(ms)])

\* the merge was of a list of messages with a map that has an "errors" entry
MergedIntoErrorsEntry ==
    /\ pc = "done"
    /\ \/ IsStructured(a) /\ IsUnstructured(b) /\ ErrorsLoc(crate) \in DOMAIN a.map
       \/ IsUnstructured(a) /\ IsStructured(b) /\ ErrorsLoc(crate) \in DOMAIN b.map

MergedMap == IF IsStructured(a) THEN a ELSE b
MergedMsgs == IF IsStructured(a) THEN b.msgs ELSE a.msgs

\* C29: merging Unstructured(ms) with a Structured error that already has an entry
\* at the "errors" location does not replace that entry: an Unstructured(xs) entry
\* becomes Unstructured(xs ++ ms), a Structured entry gets ms merged into it
\* recursively, ending under a nested "errors" location; every other entry is
\* unchanged.
C29_ExistingErrorsEntryIsKept ==
    MergedIntoErrorsEntry =>
        /\ ~IsPanic(ret)
        /\ IsStructured(ret)
        /\ DOMAIN ret.map = DOMAIN MergedMap.map
        /\ \A k \in DOMAIN ret.map :
              ret.map[k] = IF k = ErrorsLoc(crate)
                           THEN Filed(crate, MergedMap.map[k], MergedMsgs)
                           ELSE MergedMap.map[k]

\* C29 for the merge of error.rs alone
C29_InErrorRs == crate = "error" => C29_ExistingErrorsEntryIsKept

(***************************************************************************)
(* Termination of merge (FairMergeCalls)                                   *)
(***************************************************************************)
\* at no nesting level does the recursion go round the two cross-shape cases: a swap
\* is the first call of its level and leaves the wrap case to run, a wrap leaves the
\* Structured-plus-Structured case to run, and no level sees more than the two
NoCrossShapeLoop ==
    /\ \A i \in DOMAIN c : c[i].crossed <= 2
    /\ ("op" \in DOMAIN last /\ last.op = "swap" /\ pc = "merging") =>
          /\ last.crossed = 0
          /\ IsStructured(Top.self) /\ IsUnstructured(Top.other)
    /\ ("op" \in DOMAIN last /\ last.op = "wrap" /\ pc = "merging") =>
          /\ IsStructured(Top.self) /\ IsStructured(Top.other)

\* C30: merge terminates for every pair of finite error trees of any shapes: the
\* swap and the wrap each cost one further call at their nesting level and end in the
\* Structured-plus-Structured case, so the recursion never loops between the two
\* cross-shape cases, and the outermost call returns.
C30_MergeTerminates ==
    /\ []NoCrossShapeLoop
    /\ [](nops < MaxCalls)
    /\ <>(pc = "done")

\* C30's case: a list merged into a map whose "errors" entry is a map again: a swap
\* and a wrap at the top level, a wrap one level down, and the call has returned
C30_Witness ==
    /\ pc = "done"
    /\ IsUnstructured(a)
    /\ IsStructured(b)
    /\ Named("errors") \in DOMAIN b.map
    /\ IsStructured(b.map[Named("errors")])
    /\ nops = 6
    /\ ret = error_merge(b, a)

====
